---- MODULE Spec2Model ----
(***************************************************************************)
(* Rotation assembly and state-of-charge consistency pipeline of           *)
(* eflips-kyoto (scripts/prepare.py): add_empty_trips,                     *)
(* delete_invalid_rotations_and_trips and fix_driving_events, acting on    *)
(* the rows of one scenario held in an ORM session.                        *)
(*                                                                         *)
(* Modelling conventions                                                   *)
(*  - every table is a function from row id to a record of the columns     *)
(*    the three functions read or write; a deleted row leaves the domain;  *)
(*  - SOC values, energies and distances in km are exact rationals         *)
(*    <<numerator, denominator>> (IEEE rounding is not modelled);          *)
(*  - a query without ORDER BY returns its rows in an unspecified order:   *)
(*    the loops over such queries are set-valued (every order is taken);   *)
(*  - breakpoint() either returns (the operator continues, or              *)
(*    PYTHONBREAKPOINT=0) or raises BdbQuit (the debugger is quit);        *)
(*  - an exception ends the run: err names it and no operation follows;    *)
(*  - committed holds the rows of the last commit of the database, the     *)
(*    other variables the rows as the session sees them;                   *)
(*  - row ids are surrogate keys: a new row gets an id derived from the    *)
(*    row it is created for, which is fresh in its table.                  *)
(***************************************************************************)
EXTENDS Integers, Sequences, FiniteSets, TLC

VARIABLES stations, routes, trips, rotations, events, stop_times, vehicles,
          err, log, committed

vars == <<stations, routes, trips, rotations, events, stop_times, vehicles,
          err, log, committed>>

dbvars == <<stations, routes, trips, rotations, events, stop_times, vehicles>>

(***************************************************************************)
(* Bounds of the model.                                                    *)
(***************************************************************************)
\* most rotations of a generated scenario
MaxRotations == 2
\* most trips of a generated rotation
MaxTrips == 3
\* most operations of one run
MaxOps == 3

(***************************************************************************)
(* Constants of add_empty_trips.                                           *)
(***************************************************************************)
DEPOT_TRIP_DURATION == 6
DEPOT_TRIP_DISTANCE == 3100
BREAK_DURATION == 5
DEPOT_NAME == "Kujo-shako-mae"
DEPOT_NAME_SHORT == "DEP"
TERMINAL_NAME == "Kitaoji Bus Terminal"
ELECTRIC_BUS == "ElectricBus"

(***************************************************************************)
(* Exact rational arithmetic for the float expressions of the code.        *)
(***************************************************************************)
Abs(x) == IF x < 0 THEN -x ELSE x

RECURSIVE GCD(_, _)
GCD(a, b) == IF b = 0 THEN a ELSE GCD(b, a % b)

\* n/d in lowest terms with a positive denominator (d # 0)
Rat(n, d) ==
    LET g == GCD(Abs(n), Abs(d))
        s == IF d < 0 THEN -1 ELSE 1
    IN  <<(s * n) \div g, (s * d) \div g>>

RInt(n) == <<n, 1>>
RAdd(a, b) == Rat(a[1] * b[2] + b[1] * a[2], a[2] * b[2])
RSub(a, b) == Rat(a[1] * b[2] - b[1] * a[2], a[2] * b[2])
RMul(a, b) == Rat(a[1] * b[1], a[2] * b[2])
RDiv(a, b) == Rat(a[1] * b[2], a[2] * b[1])
RLe(a, b) == a[1] * b[2] <= b[1] * a[2]
RLt(a, b) == a[1] * b[2] < b[1] * a[2]
RZero == RInt(0)
ROne == RInt(1)

(***************************************************************************)
(* Tables.                                                                 *)
(***************************************************************************)
Remove(f, ids) == [x \in DOMAIN f \ ids |-> f[x]]
Put(f, id, v) == [x \in DOMAIN f \cup {id} |-> IF x = id THEN v ELSE f[x]]

\* the session's rows, as one value
State ==
    [stations |-> stations, routes |-> routes, trips |-> trips,
     rotations |-> rotations, events |-> events, stop_times |-> stop_times,
     vehicles |-> vehicles, err |-> "none"]

\* the tables of st
Tables(st) ==
    [stations |-> st.stations, routes |-> st.routes, trips |-> st.trips,
     rotations |-> st.rotations, events |-> st.events,
     stop_times |-> st.stop_times, vehicles |-> st.vehicles]

\* VehicleType.battery_capacity of the vehicle types of the imported scenario
battery_capacity(vt) == IF vt = ELECTRIC_BUS THEN 300 ELSE 200

\* trip.events and trip.stop_times: the rows that reference the trip
TripEvents(st, t) == {e \in DOMAIN st.events : st.events[e].trip = t}
TripStopTimes(st, t) == {s \in DOMAIN st.stop_times : st.stop_times[s].trip = t}

\* trip.route.departure_station / arrival_station
DepartureStation(st, t) == st.routes[st.trips[t].route].departure_station
ArrivalStation(st, t) == st.routes[st.trips[t].route].arrival_station


Fail(st, e) == [st EXCEPT !.err = e]

(***************************************************************************)
(* add_empty_trips (prepare.py 28-126).                                    *)
(***************************************************************************)
\* the stations whose short name is n
StationsNamed_Short(st, n) ==
    {s \in DOMAIN st.stations : st.stations[s].name_short = n}

\* session.query(Station).filter(Station.name == n)
StationsNamed(st, n) == {s \in DOMAIN st.stations : st.stations[s].name = n}

\* ids of the rows add_empty_trips creates
DepotStationId == 9
DepotToFirstStopId == 8
FirstStopToDepotId == 9
InboundTripId(r) == 10 * r
OutboundTripId(r) == 10 * r + 9

\* lines 49-61: the depot station
NewDepot ==
    [name |-> DEPOT_NAME, name_short |-> DEPOT_NAME_SHORT]

\* lines 75-93: the two routes between depot and terminal
NewRoutes(st, depot, terminal) ==
    Put(Put(st.routes, DepotToFirstStopId,
            [departure_station |-> depot, arrival_station |-> terminal,
             distance |-> DEPOT_TRIP_DISTANCE, name_short |-> "DEP_TERM"]),
        FirstStopToDepotId,
        [departure_station |-> terminal, arrival_station |-> depot,
         distance |-> DEPOT_TRIP_DISTANCE, name_short |-> "TERM_DEP"])

\* a deadhead trip whose type is left PASSENGER
DeadheadTrip_Passenger(route, start, end, r) ==
    [route |-> route, departure_time |-> start, arrival_time |-> end,
     trip_type |-> "PASSENGER", loaded_mass |-> 0, rotation |-> r]

\* lines 101-108 and 116-123: a deadhead trip of rotation r
DeadheadTrip(route, start, end, r) ==
    [route |-> route, departure_time |-> start, arrival_time |-> end,
     trip_type |-> "EMPTY", loaded_mass |-> 0, rotation |-> r]

\* lines 98-126: the two deadhead trips of one rotation
AddDepotTrips(st, r) ==
    LET tr == st.rotations[r].trips IN
    IF Len(tr) = 0 THEN Fail(st, "IndexError")
    ELSE
        LET first_trip_start == st.trips[tr[1]].departure_time
            in_end == first_trip_start - BREAK_DURATION
            in_start == in_end - DEPOT_TRIP_DURATION
            last_trip_end == st.trips[tr[Len(tr)]].arrival_time
            out_start == last_trip_end + BREAK_DURATION
            out_end == out_start + DEPOT_TRIP_DURATION
        IN  [st EXCEPT
               !.trips =
                   Put(Put(@, InboundTripId(r),
                           DeadheadTrip(DepotToFirstStopId, in_start, in_end, r)),
                       OutboundTripId(r),
                       DeadheadTrip(FirstStopToDepotId, out_start, out_end, r)),
               !.rotations[r].trips =
                   <<InboundTripId(r)>> \o @ \o <<OutboundTripId(r)>>]

\* line 97: the loop over the scenario's rotations, in every query order
RECURSIVE AddLoop(_, _)
AddLoop(st, todo) ==
    IF st.err # "none" \/ todo = {} THEN {st}
    ELSE UNION {AddLoop(AddDepotTrips(st, r), todo \ {r}) : r \in todo}

\* the outcomes of add_empty_trips on st
AddEmptyTrips(st) ==
    LET depots == StationsNamed(st, DEPOT_NAME) IN
    IF Cardinality(depots) > 1 THEN {Fail(st, "MultipleResultsFound")}
    ELSE IF Cardinality(depots) = 1 THEN {Fail(st, "ValueError")}
    ELSE
        LET st1 == [st EXCEPT !.stations = Put(@, DepotStationId, NewDepot)]
            terminals == StationsNamed(st1, TERMINAL_NAME)
        IN  IF Cardinality(terminals) = 0 THEN {Fail(st1, "NoResultFound")}
            ELSE IF Cardinality(terminals) > 1
                 THEN {Fail(st1, "MultipleResultsFound")}
            ELSE
                LET terminal == CHOOSE s \in terminals : TRUE
                    st2 == [st1 EXCEPT
                              !.routes = NewRoutes(st1, DepotStationId, terminal)]
                IN  AddLoop(st2, DOMAIN st2.rotations)

(***************************************************************************)
(* delete_invalid_rotations_and_trips (prepare.py 129-174).                *)
(***************************************************************************)
\* lines 134-141: one entry <<rotation, i>> per broken link
BrokenLinks(st) ==
    UNION {{<<r, i>> : i \in {j \in 1..Len(st.rotations[r].trips) :
                /\ st.rotations[r].trips[j] #
                       st.rotations[r].trips[Len(st.rotations[r].trips)]
                /\ ArrivalStation(st, st.rotations[r].trips[j]) #
                       DepartureStation(st, st.rotations[r].trips[j + 1])}}
           : r \in DOMAIN st.rotations}

\* line 143: list(set(rotations_to_delete))
RotationsToDelete(st) == {p[1] : p \in BrokenLinks(st)}

Range(seq) == {seq[i] : i \in 1..Len(seq)}

\* the deletion of the rotations rs that leaves their trips' events behind
DeleteRotations_KeepEvents(st, rs) ==
    LET ts == UNION {Range(st.rotations[r].trips) : r \in rs} IN
    [st EXCEPT
       !.stop_times = Remove(@, UNION {TripStopTimes(st, t) : t \in ts}),
       !.trips = Remove(@, ts),
       !.rotations = Remove(@, rs)]

\* lines 148-155: the trips of the rotations rs, their stop-times and events,
\* and the rotations
DeleteRotations(st, rs) ==
    LET ts == UNION {Range(st.rotations[r].trips) : r \in rs} IN
    [st EXCEPT
       !.stop_times = Remove(@, UNION {TripStopTimes(st, t) : t \in ts}),
       !.events = Remove(@, UNION {TripEvents(st, t) : t \in ts}),
       !.trips = Remove(@, ts),
       !.rotations = Remove(@, rs)]

\* lines 158-163: the driving events that did not consume energy
NegativeConsumption(ev) == RLe(ev.soc_start, ev.soc_end)

BadEvents(st) == {e \in DOMAIN st.events : NegativeConsumption(st.events[e])}

RemoveFromSeq(seq, x) == SelectSeq(seq, LAMBDA y : y # x)

\* lines 164-174 for one event ev of the query's result. A trip already
\* removed by an earlier event of the same trip has trip.rotation = None:
\* rotation.trips fails.
DeleteTripOf(st, ev) ==
    LET t == ev.trip IN
    IF t \notin DOMAIN st.trips THEN Fail(st, "AttributeError")
    ELSE
        LET r == st.trips[t].rotation IN
        [st EXCEPT
           !.stop_times = Remove(@, TripStopTimes(st, t)),
           !.events = Remove(@, TripEvents(st, t)),
           !.rotations[r].trips = RemoveFromSeq(@, t),
           !.trips = Remove(@, {t})]

\* line 158: the loop over the query's result rows, in every order
RECURSIVE DeleteTripsLoop(_, _, _)
DeleteTripsLoop(st, todo, rows) ==
    IF st.err # "none" \/ todo = {} THEN {st}
    ELSE UNION {DeleteTripsLoop(DeleteTripOf(st, rows[e]), todo \ {e}, rows)
                : e \in todo}

\* the outcomes of delete_invalid_rotations_and_trips on st
DeleteInvalidRotationsAndTrips(st) ==
    LET st1 == DeleteRotations(st, RotationsToDelete(st)) IN
    DeleteTripsLoop(st1, BadEvents(st1), st1.events)

(***************************************************************************)
(* fix_driving_events (prepare.py 262-333).                                *)
(***************************************************************************)
RECURSIVE RSum(_, _)
RSum(f, S) ==
    IF S = {} THEN RZero
    ELSE LET x == CHOOSE y \in S : TRUE IN RAdd(f[x], RSum(f, S \ {x}))

\* the sum of the SOC differences, without the battery capacities
sum_of_energy_Soc(st) ==
    RSum([e \in DOMAIN st.events |->
             RSub(st.events[e].soc_start, st.events[e].soc_end)],
         DOMAIN st.events)

\* lines 281-283
sum_of_energy(st) ==
    RSum([e \in DOMAIN st.events |->
             RMul(RSub(st.events[e].soc_start, st.events[e].soc_end),
                  RInt(battery_capacity(st.events[e].vehicle_type)))],
         DOMAIN st.events)

\* line 284
sum_of_distance(st) ==
    RSum([e \in DOMAIN st.events |->
             Rat(st.routes[st.trips[st.events[e].trip].route].distance, 1000)],
         DOMAIN st.events)

\* line 286 (sum_of_distance is not zero)
average_energy_consumption(st) == RDiv(sum_of_energy(st), sum_of_distance(st))

\* one vehicle id for all the rotations of a call
NewVehicleId_Shared(r, run) == 10 + run

\* the id of the Vehicle row of lines 289-298
NewVehicleId(r, run) == 10 * r + run
NewEventId(t) == 10 * t

\* a boundary event that starts from a full battery whatever was carried
BoundaryEvent_Full(st, r, t, vehicle, soc, avg) ==
    LET energy == RMul(Rat(st.routes[st.trips[t].route].distance, 1000), avg)
        delta_soc ==
            RDiv(energy, RInt(battery_capacity(st.rotations[r].vehicle_type)))
    IN  [trip |-> t, vehicle |-> vehicle,
         vehicle_type |-> st.vehicles[vehicle].vehicle_type,
         time_start |-> st.trips[t].departure_time,
         time_end |-> st.trips[t].arrival_time,
         soc_start |-> ROne, soc_end |-> RSub(ROne, delta_soc)]

\* lines 308-322: the driving event created for a first or last trip
BoundaryEvent(st, r, t, vehicle, soc, avg) ==
    LET energy == RMul(Rat(st.routes[st.trips[t].route].distance, 1000), avg)
        delta_soc ==
            RDiv(energy, RInt(battery_capacity(st.rotations[r].vehicle_type)))
    IN  [trip |-> t, vehicle |-> vehicle,
         vehicle_type |-> st.vehicles[vehicle].vehicle_type,
         time_start |-> st.trips[t].departure_time,
         time_end |-> st.trips[t].arrival_time,
         soc_start |-> soc, soc_end |-> RSub(soc, delta_soc)]

\* line 305: assert len(trip.events) == 0
BoundaryAssert(n) == n = 0

\* an interior trip may carry several events
InteriorAssert_AtLeastOne(n) == n >= 1

\* line 324: assert len(trip.events) == 1
InteriorAssert(n) == n = 1

\* lines 302-333: the trips of rotation r from position i on, soc being
\* soc_at_start_of_trip
RECURSIVE FixTrips(_, _, _, _, _, _)
FixTrips(st, r, i, soc, vehicle, avg) ==
    LET tr == st.rotations[r].trips IN
    IF st.err # "none" \/ i > Len(tr) THEN {st}
    ELSE
        LET t == tr[i]
            evs == TripEvents(st, t)
        IN  IF i = 1 \/ i = Len(tr)
            THEN IF ~BoundaryAssert(Cardinality(evs))
                 THEN {Fail(st, "AssertionError")}
                 ELSE LET ev == BoundaryEvent(st, r, t, vehicle, soc, avg) IN
                      FixTrips([st EXCEPT !.events = Put(@, NewEventId(t), ev)],
                               r, i + 1, ev.soc_end, vehicle, avg)
            ELSE IF ~InteriorAssert(Cardinality(evs))
                 THEN {Fail(st, "AssertionError")}
                 ELSE LET e == CHOOSE x \in evs : TRUE
                          delta_soc == RSub(st.events[e].soc_start,
                                            st.events[e].soc_end)
                          rehomed == [st EXCEPT !.events[e].vehicle = vehicle]
                          fixed == [rehomed EXCEPT
                                      !.events[e].soc_start = soc,
                                      !.events[e].soc_end = RSub(soc, delta_soc)]
                          continued == FixTrips(fixed, r, i + 1,
                                                RSub(soc, delta_soc), vehicle, avg)
                      IN  IF RLt(delta_soc, RZero)
                          THEN {Fail(rehomed, "BdbQuit")} \cup continued
                          ELSE continued

\* lines 288-301: the new vehicle of rotation r, then its trips
FixRotation(st, r, run, avg) ==
    LET vehicle == NewVehicleId(r, run)
        st1 == [st EXCEPT
                  !.vehicles = Put(@, vehicle,
                                   [vehicle_type |-> ELECTRIC_BUS, rotation |-> r]),
                  !.rotations[r].vehicle = vehicle]
    IN  FixTrips(st1, r, 1, ROne, vehicle, avg)

\* line 287: the loop over the scenario's rotations, in every query order
RECURSIVE FixLoop(_, _, _, _)
FixLoop(st, todo, run, avg) ==
    IF st.err # "none" \/ todo = {} THEN {st}
    ELSE UNION {UNION {FixLoop(s, todo \ {r}, run, avg)
                       : s \in FixRotation(st, r, run, avg)} : r \in todo}

\* a call that takes an average of zero when there is no driving event
FixDrivingEvents_AverageZero(st, run) ==
    FixLoop(st, DOMAIN st.rotations, run,
            IF sum_of_distance(st) = RZero THEN RZero
            ELSE average_energy_consumption(st))

\* the outcomes of the run-th call of fix_driving_events, on st
FixDrivingEvents(st, run) ==
    IF sum_of_distance(st) = RZero THEN {Fail(st, "ZeroDivisionError")}
    ELSE FixLoop(st, DOMAIN st.rotations, run, average_energy_consumption(st))

(***************************************************************************)
(* The imported scenarios the runs start from.                             *)
(***************************************************************************)
OTHER_BUS == "OtherBus"

\* the driving events a generated trip carries: <<soc_start, soc_end, type>>
PatternEvents(pat) ==
    CASE pat = "none" -> <<>>
      [] pat = "good" -> << <<Rat(1, 1), Rat(4, 5), ELECTRIC_BUS>> >>
      [] pat = "big" -> << <<Rat(1, 1), Rat(2, 5), OTHER_BUS>> >>
      [] pat = "flat" -> << <<Rat(1, 2), Rat(1, 2), ELECTRIC_BUS>> >>
      [] pat = "neg" -> << <<Rat(2, 5), Rat(1, 2), ELECTRIC_BUS>> >>
      [] pat = "next" -> << <<Rat(4, 5), Rat(3, 5), ELECTRIC_BUS>> >>
      [] pat = "twoGood" -> << <<Rat(1, 1), Rat(4, 5), ELECTRIC_BUS>>,
                               <<Rat(4, 5), Rat(3, 5), ELECTRIC_BUS>> >>
      [] pat = "twoBad" -> << <<Rat(2, 5), Rat(1, 2), ELECTRIC_BUS>>,
                              <<Rat(1, 2), Rat(1, 2), ELECTRIC_BUS>> >>

AllPatterns == {"none", "good", "big", "flat", "neg", "twoGood", "twoBad"}

\* the trips of the rotations of a scenario of several rotations
FewTripSpecs ==
    {[route |-> 2, pat |-> "good"], [route |-> 1, pat |-> "good"],
     [route |-> 1, pat |-> "neg"]}

AllTripSpecs == [route : {1, 2}, pat : AllPatterns]

\* rotations of at most n trips, each trip a route and a pattern
RotationSpecs(n, specs) == UNION {[1..k -> specs] : k \in 0..n}

TripId(r, k) == 10 * r + k

InitStations(terms, extras) ==
    LET all == [s \in 1..6 |->
                  CASE s = 1 -> [name |-> "A", name_short |-> "A"]
                    [] s = 2 -> [name |-> IF terms >= 1 THEN TERMINAL_NAME ELSE "B",
                                 name_short |-> "B"]
                    [] s = 3 -> [name |-> TERMINAL_NAME, name_short |-> "B2"]
                    [] s = 4 -> [name |-> DEPOT_NAME, name_short |-> DEPOT_NAME_SHORT]
                    [] s = 5 -> [name |-> DEPOT_NAME, name_short |-> "OLD"]
                    [] s = 6 -> [name |-> "C", name_short |-> DEPOT_NAME_SHORT]]
    IN  [s \in {1, 2} \cup (IF terms = 2 THEN {3} ELSE {}) \cup extras |-> all[s]]

InitRoutes ==
    [x \in {1, 2} |->
        IF x = 1
        THEN [departure_station |-> 1, arrival_station |-> 2,
              distance |-> 10000, name_short |-> "A_B"]
        ELSE [departure_station |-> 2, arrival_station |-> 1,
              distance |-> 15000, name_short |-> "B_A"]]

InitVehicles ==
    [v \in {1, 2} |->
        [vehicle_type |-> IF v = 1 THEN ELECTRIC_BUS ELSE OTHER_BUS,
         rotation |-> 0]]

InitTripIds(rots) ==
    UNION {{TripId(r, k) : k \in 1..Len(rots[r])} : r \in 1..Len(rots)}

InitTrips(rots) ==
    [t \in InitTripIds(rots) |->
        LET k == t % 10 IN
        [route |-> rots[t \div 10][k].route,
         departure_time |-> 100 + 30 * (k - 1),
         arrival_time |-> 120 + 30 * (k - 1),
         trip_type |-> "PASSENGER", loaded_mass |-> 1000,
         rotation |-> t \div 10]]

InitEvents(rots) ==
    LET ids == UNION {{10 * t + j :
                         j \in 1..Len(PatternEvents(rots[t \div 10][t % 10].pat))}
                      : t \in InitTripIds(rots)}
    IN  [e \in ids |->
            LET t == e \div 10
                p == PatternEvents(rots[t \div 10][t % 10].pat)[e % 10]
            IN  [trip |-> t,
                 vehicle |-> IF p[3] = ELECTRIC_BUS THEN 1 ELSE 2,
                 vehicle_type |-> p[3],
                 time_start |-> 100 + 30 * ((t % 10) - 1),
                 time_end |-> 120 + 30 * ((t % 10) - 1),
                 soc_start |-> p[1], soc_end |-> p[2]]]

InitScenario(terms, extras, rots, oldVehicle) ==
    /\ stations = InitStations(terms, extras)
    /\ routes = InitRoutes
    /\ vehicles = InitVehicles
    /\ rotations = [r \in 1..Len(rots) |->
                       [trips |-> [k \in 1..Len(rots[r]) |-> TripId(r, k)],
                        vehicle |-> IF oldVehicle THEN 1 ELSE 0,
                        vehicle_type |-> ELECTRIC_BUS]]
    /\ trips = InitTrips(rots)
    /\ events = InitEvents(rots)
    /\ stop_times = [s \in InitTripIds(rots) |-> [trip |-> s]]
    /\ err = "none"
    /\ log = <<>>
    /\ committed = Tables(State)

\* one rotation, every pattern
InitOneRotation ==
    \E rot \in RotationSpecs(MaxTrips, AllTripSpecs) :
        InitScenario(1, {}, <<rot>>, FALSE)

\* several rotations of fewer trips and patterns
InitRotations ==
    \E n \in 2..MaxRotations :
        \E rots \in [1..n -> RotationSpecs(2, FewTripSpecs)] :
            InitScenario(1, {}, rots, FALSE)

\* every station configuration, one short rotation
InitStationsVaried ==
    \E terms \in 0..2, extras \in SUBSET {4, 5, 6} :
        \E rot \in RotationSpecs(1, FewTripSpecs) :
            InitScenario(terms, extras, <<rot>>, TRUE)

\* two revenue trips of 10 km and 15 km, each with one event of a 300 kWh bus
InitTwoEvents ==
    InitScenario(1, {}, << <<[route |-> 1, pat |-> "good"],
                             [route |-> 2, pat |-> "next"]>> >>, FALSE)

Init == InitOneRotation \/ InitRotations \/ InitStationsVaried \/ InitTwoEvents

(***************************************************************************)
(* The operations: each is one call, applied to the session's rows.        *)
(***************************************************************************)
Becomes(st) ==
    /\ stations' = st.stations
    /\ routes' = st.routes
    /\ trips' = st.trips
    /\ rotations' = st.rotations
    /\ events' = st.events
    /\ stop_times' = st.stop_times
    /\ vehicles' = st.vehicles
    /\ err' = st.err

CanRun == err = "none" /\ Len(log) < MaxOps

\* the last operation of the run was op
Ran(op) == Len(log) > 0 /\ log[Len(log)] = op

Calls(op) == Cardinality({i \in 1..Len(log) : log[i] = op})

add_empty_trips ==
    /\ CanRun
    /\ \E st \in AddEmptyTrips(State) : Becomes(st)
    /\ log' = Append(log, "add")
    /\ UNCHANGED committed

delete_invalid_rotations_and_trips ==
    /\ CanRun
    /\ \E st \in DeleteInvalidRotationsAndTrips(State) : Becomes(st)
    /\ log' = Append(log, "prune")
    /\ UNCHANGED committed

fix_driving_events ==
    /\ CanRun
    /\ \E st \in FixDrivingEvents(State, Calls("fix") + 1) : Becomes(st)
    /\ log' = Append(log, "fix")
    /\ UNCHANGED committed

Next == add_empty_trips \/ delete_invalid_rotations_and_trips \/ fix_driving_events

Spec == Init /\ [][Next]_vars

(***************************************************************************)
(* The run of main.py (lines 212-231): one session, one commit at the end. *)
(***************************************************************************)
FixupRotationId(t) == 100 + t
ScheduledRotationId == 200

\* util.fixup_rotations: a new rotation for every trip; the trip leaves the
\* trip list of the rotation it had
FixupRotations(st) ==
    [st EXCEPT
       !.rotations =
           [r \in DOMAIN @ \cup {FixupRotationId(t) : t \in DOMAIN st.trips} |->
               IF r \in DOMAIN @
               THEN [@[r] EXCEPT !.trips = <<>>]
               ELSE [trips |-> <<r - 100>>, vehicle |-> 0,
                     vehicle_type |-> ELECTRIC_BUS]],
       !.trips = [t \in DOMAIN @ |-> [@[t] EXCEPT !.rotation = FixupRotationId(t)]]]

\* the trips ts in the order of their departure
RECURSIVE ByDeparture(_, _)
ByDeparture(st, ts) ==
    IF ts = {} THEN <<>>
    ELSE LET t == CHOOSE x \in ts :
                     \A y \in ts :
                         \/ st.trips[x].departure_time < st.trips[y].departure_time
                         \/ /\ st.trips[x].departure_time = st.trips[y].departure_time
                            /\ x <= y
         IN  <<t>> \o ByDeparture(st, ts \ {t})

\* scheduling.do_scheduling: the optimizer of eflips.opt either fails or
\* writes a rotation plan back into the session: the trips ts are chained
\* into one rotation, the others keep theirs
DoScheduling(st) ==
    {Fail(st, "SchedulingError")} \cup
    {IF Cardinality(ts) < 2 THEN st
     ELSE [st EXCEPT
             !.rotations =
                 [r \in DOMAIN @ \cup {ScheduledRotationId} |->
                     IF r = ScheduledRotationId
                     THEN [trips |-> ByDeparture(st, ts), vehicle |-> 0,
                           vehicle_type |-> ELECTRIC_BUS]
                     ELSE [@[r] EXCEPT !.trips = SelectSeq(@, LAMBDA t : t \notin ts)]],
             !.trips = [t \in DOMAIN @ |->
                          IF t \in ts
                          THEN [@[t] EXCEPT !.rotation = ScheduledRotationId]
                          ELSE @[t]]]
     : ts \in SUBSET DOMAIN st.trips}

\* main.add_empty_trips (main.py 47-55): its first statement raises
MainAddEmptyTrips(st) == Fail(st, "NotImplementedError")

\* a session whose end commits whatever it holds
SessionEnd_AlwaysCommit(st, com, e) == Tables(st)

\* lines 216-231: the with-block is left by session.commit() when no stage
\* raised, else by the exception, and the session is closed without commit
SessionEnd(st, com, e) == IF e = "none" THEN Tables(st) ELSE com

\* the session sees the tables tb
Sees(tb) ==
    /\ stations' = tb.stations
    /\ routes' = tb.routes
    /\ trips' = tb.trips
    /\ rotations' = tb.rotations
    /\ events' = tb.events
    /\ stop_times' = tb.stop_times
    /\ vehicles' = tb.vehicles

main_fixup_rotations ==
    /\ err = "none" /\ log = <<>>
    /\ Becomes(FixupRotations(State))
    /\ log' = Append(log, "fixup")
    /\ UNCHANGED committed

main_do_scheduling ==
    /\ err = "none" /\ Ran("fixup")
    /\ \E st \in DoScheduling(State) : Becomes(st)
    /\ log' = Append(log, "schedule")
    /\ UNCHANGED committed

main_add_empty_trips ==
    /\ err = "none" /\ Ran("schedule")
    /\ Becomes(MainAddEmptyTrips(State))
    /\ log' = Append(log, "main_add")
    /\ UNCHANGED committed

main_exit ==
    /\ err # "none" /\ ~Ran("exit") /\ Len(log) > 0 /\ log[1] = "fixup"
    /\ committed' = SessionEnd(State, committed, err)
    /\ Sees(committed')
    /\ log' = Append(log, "exit")
    /\ UNCHANGED err

MainNext ==
    main_fixup_rotations \/ main_do_scheduling \/ main_add_empty_trips \/ main_exit

MainSpec == Init /\ [][MainNext]_vars

(***************************************************************************)
(* Vocabulary of the properties.                                           *)
(***************************************************************************)
\* ... and it returned
Completed(op) == Ran(op) /\ err = "none"
\* this step is a call of op
Step(op) == log' = Append(log, op)

\* rotation r of st has a pair of adjacent trips whose stations mismatch
Broken(st, r) ==
    \E i \in 1..(Len(st.rotations[r].trips) - 1) :
        ArrivalStation(st, st.rotations[r].trips[i]) #
            DepartureStation(st, st.rotations[r].trips[i + 1])

InUnitInterval(x) == RLe(RZero, x) /\ RLe(x, ROne)

\* every event and stop-time has its trip, every trip its rotation
Integrity(st) ==
    /\ \A e \in DOMAIN st.events : st.events[e].trip \in DOMAIN st.trips
    /\ \A s \in DOMAIN st.stop_times : st.stop_times[s].trip \in DOMAIN st.trips
    /\ \A t \in DOMAIN st.trips : st.trips[t].rotation \in DOMAIN st.rotations

(***************************************************************************)
(* C1: after delete_invalid_rotations_and_trips has run both of its steps, *)
(* in every remaining rotation each trip arrives where the next departs.   *)
(***************************************************************************)
C1_Connectivity ==
    Completed("prune") => \A r \in DOMAIN rotations : ~Broken(State, r)

(***************************************************************************)
(* C2: a call of delete_invalid_rotations_and_trips right after a          *)
(* completed one deletes nothing: no table changes.                        *)
(***************************************************************************)
C2_IdempotentPruning ==
    [][(Completed("prune") /\ Step("prune")) => UNCHANGED dbvars]_vars

(***************************************************************************)
(* C3: after fix_driving_events has completed, along every rotation the    *)
(* soc_end of the trips' driving events never increases and every          *)
(* soc_start and soc_end lies in [0, 1].                                   *)
(***************************************************************************)
C3_MonotonicSoc ==
    Completed("fix") =>
        \A r \in DOMAIN rotations :
            \A i \in 1..Len(rotations[r].trips) :
                \A e \in TripEvents(State, rotations[r].trips[i]) :
                    /\ InUnitInterval(events[e].soc_start)
                    /\ InUnitInterval(events[e].soc_end)
                    /\ i < Len(rotations[r].trips) =>
                         \A f \in TripEvents(State, rotations[r].trips[i + 1]) :
                             RLe(events[f].soc_end, events[e].soc_end)

(***************************************************************************)
(* C4: a completed call of fix_driving_events leaves every rotation with   *)
(* one vehicle, created by this call and assigned to no other rotation,    *)
(* and every driving event of the rotation's trips references it.          *)
(***************************************************************************)
C4_VehicleAssignment ==
    [][(Step("fix") /\ err' = "none") =>
          \A r \in DOMAIN rotations' :
              LET v == rotations'[r].vehicle IN
              /\ v \in DOMAIN vehicles' \ DOMAIN vehicles
              /\ vehicles'[v].rotation = r
              /\ \A q \in DOMAIN rotations' \ {r} : rotations'[q].vehicle # v
              /\ \A t \in Range(rotations'[r].trips) :
                     \A e \in TripEvents(State', t) : events'[e].vehicle = v
      ]_vars

\* a completed call on two rotations, with re-homed interior events
C4_Witness ==
    /\ Completed("fix")
    /\ Cardinality(DOMAIN rotations) >= 2
    /\ \A r \in DOMAIN rotations : Len(rotations[r].trips) >= 3

(***************************************************************************)
(* C5: after add_empty_trips, delete_invalid_rotations_and_trips and       *)
(* fix_driving_events in that order, the first and the last trip of every  *)
(* remaining rotation are EMPTY trips of loaded mass zero that carry       *)
(* exactly one driving event each.                                         *)
(***************************************************************************)
C5_BoundaryShape ==
    (log = <<"add", "prune", "fix">> /\ err = "none") =>
        \A r \in DOMAIN rotations :
            /\ Len(rotations[r].trips) >= 2
            /\ \A t \in {rotations[r].trips[1],
                         rotations[r].trips[Len(rotations[r].trips)]} :
                   /\ trips[t].trip_type = "EMPTY"
                   /\ trips[t].loaded_mass = 0
                   /\ Cardinality(TripEvents(State, t)) = 1

\* the pipeline has completed and a rotation with interior trips remains
C5_Witness ==
    /\ log = <<"add", "prune", "fix">> /\ err = "none"
    /\ \E r \in DOMAIN rotations : Len(rotations[r].trips) >= 4

(***************************************************************************)
(* C6: delete_invalid_rotations_and_trips deletes every rotation that has  *)
(* a broken link, once, with all its trips; afterwards every remaining     *)
(* stop-time and event has its trip and every remaining trip its rotation. *)
(***************************************************************************)
C6_BrokenRotationDeleted ==
    [][Step("prune") =>
          /\ \A r \in DOMAIN rotations :
                 Broken(State, r) =>
                     /\ r \notin DOMAIN rotations'
                     /\ \A t \in Range(rotations[r].trips) :
                            /\ t \notin DOMAIN trips'
                            /\ TripEvents(State, t) \cap DOMAIN events' = {}
                            /\ TripStopTimes(State, t) \cap DOMAIN stop_times' = {}
          /\ DOMAIN rotations \ DOMAIN rotations' =
                 {r \in DOMAIN rotations : Broken(State, r)}
          /\ Integrity(State')
      ]_vars

\* a rotation with a broken link has been deleted, another one remains
C6_Witness ==
    /\ log = <<"add", "prune">>
    /\ DOMAIN rotations = {2}
    /\ DOMAIN trips = {20, 21, 22, 29}

\* trip t of st owns a driving event that did not consume energy
OwnsBadEvent(st, t) ==
    \E e \in TripEvents(st, t) : RLe(st.events[e].soc_start, st.events[e].soc_end)

\* the effect the claim describes, on the rotations of st without broken link
OnlyBadTripsDeleted(st, new) ==
    \A r \in DOMAIN st.rotations :
        ~Broken(st, r) =>
            /\ r \in DOMAIN new.rotations
            /\ new.rotations[r] =
                   [st.rotations[r] EXCEPT
                      !.trips = SelectSeq(@, LAMBDA t : ~OwnsBadEvent(st, t))]
            /\ \A t \in Range(st.rotations[r].trips) :
                   IF OwnsBadEvent(st, t)
                   THEN /\ t \notin DOMAIN new.trips
                        /\ TripEvents(st, t) \cap DOMAIN new.events = {}
                        /\ TripStopTimes(st, t) \cap DOMAIN new.stop_times = {}
                   ELSE /\ t \in DOMAIN new.trips /\ new.trips[t] = st.trips[t]
                        /\ TripEvents(new, t) = TripEvents(st, t)
                        /\ \A e \in TripEvents(st, t) : new.events[e] = st.events[e]
                        /\ TripStopTimes(new, t) = TripStopTimes(st, t)

(***************************************************************************)
(* C7: in a rotation without a broken link,                                *)
(* delete_invalid_rotations_and_trips deletes exactly the trips that own a *)
(* driving event with soc_start <= soc_end, with their stop-times and      *)
(* events; the rotation remains, and its other trips, their events and     *)
(* stop-times are unchanged and keep their order.                          *)
(***************************************************************************)
C7_OnlyBadTripsDeleted ==
    [][Step("prune") => OnlyBadTripsDeleted(State, State')]_vars

\* add_empty_trips left the stations, routes and trips as they were
NothingCreated ==
    /\ stations' = stations /\ routes' = routes /\ trips' = trips

\* one station was added: the depot
DepotCreated ==
    \E s \in DOMAIN stations' \ DOMAIN stations :
        /\ DOMAIN stations' = DOMAIN stations \cup {s}
        /\ \A x \in DOMAIN stations : stations'[x] = stations[x]
        /\ stations'[s].name = DEPOT_NAME
        /\ stations'[s].name_short = DEPOT_NAME_SHORT

\* two routes were added: depot -> terminal and terminal -> depot
RoutesCreated ==
    /\ Cardinality(DOMAIN routes' \ DOMAIN routes) = 2
    /\ DOMAIN routes \subseteq DOMAIN routes'
    /\ \A x \in DOMAIN routes : routes'[x] = routes[x]
    /\ \E a, b \in DOMAIN routes' \ DOMAIN routes :
           /\ stations'[routes'[a].departure_station].name = DEPOT_NAME
           /\ stations'[routes'[a].arrival_station].name = TERMINAL_NAME
           /\ routes'[b].departure_station = routes'[a].arrival_station
           /\ routes'[b].arrival_station = routes'[a].departure_station

C9_EstimatorFails ==
    [][Step("fix") =>
          /\ (err' = "ZeroDivisionError") <=> (DOMAIN events = {})
          /\ DOMAIN events = {} => UNCHANGED dbvars
          /\ (DOMAIN events # {} /\ DOMAIN rotations # {}) =>
                 DOMAIN vehicles' \ DOMAIN vehicles # {}
      ]_vars

\* a call on a scenario with rotations and no driving event has failed
C9_Witness ==
    /\ Ran("fix") /\ err = "ZeroDivisionError"
    /\ DOMAIN rotations # {}

\* some rotation of st has a trip with an unexpected number of events
BadShape(st) ==
    \E r \in DOMAIN st.rotations :
        \E i \in 1..Len(st.rotations[r].trips) :
            LET n == Cardinality(TripEvents(st, st.rotations[r].trips[i])) IN
            IF i = 1 \/ i = Len(st.rotations[r].trips) THEN n # 0 ELSE n # 1

OneEventPerTrip(st) ==
    \A r \in DOMAIN st.rotations :
        \A t \in Range(st.rotations[r].trips) :
            Cardinality(TripEvents(st, t)) = 1

(***************************************************************************)
(* C10, as stated: fix_driving_events aborts with the input-shape error    *)
(* when a first or last trip of a rotation carries a driving event or      *)
(* another trip carries none or several; when it completes, every trip of  *)
(* every rotation carries exactly one.                                     *)
(***************************************************************************)
C10_InputShapeError ==
    [][Step("fix") =>
          /\ BadShape(State) => err' = "AssertionError"
          /\ err' = "none" => OneEventPerTrip(State')
      ]_vars

(***************************************************************************)
(* C10, amended: on such a rotation fix_driving_events aborts, with the    *)
(* division by zero of the estimate when the scenario has no driving event *)
(* at all, else with the input-shape error or, the debugger being quit at  *)
(* an earlier trip of negative delta, with BdbQuit; when it completes,     *)
(* every trip of every rotation carries exactly one driving event.         *)
(***************************************************************************)
C10_ShapeAbort ==
    [][Step("fix") =>
          /\ BadShape(State) =>
                 IF DOMAIN events = {} THEN err' = "ZeroDivisionError"
                 ELSE err' \in {"AssertionError", "BdbQuit"}
          /\ err' = "none" => OneEventPerTrip(State')
      ]_vars

\* a call on a scenario with driving events has hit the assertion
C10_Witness ==
    /\ Ran("fix") /\ err = "AssertionError"

NegativeInterior(st) ==
    {e \in DOMAIN st.events :
        /\ RLt(st.events[e].soc_start, st.events[e].soc_end)
        /\ \E r \in DOMAIN st.rotations :
               \E i \in 2..(Len(st.rotations[r].trips) - 1) :
                   st.rotations[r].trips[i] = st.events[e].trip}

(***************************************************************************)
(* C12: a call of fix_driving_events on a scenario where an interior trip  *)
(* has a driving event with soc_start < soc_end ends in an error and       *)
(* leaves the SOC values of that event as they were: it does not overwrite *)
(* them and does not carry an increased SOC to the next trip.              *)
(***************************************************************************)
C12_NegativeDeltaFatal ==
    [][(Step("fix") /\ NegativeInterior(State) # {}) =>
           /\ err' # "none"
           /\ \A e \in NegativeInterior(State) :
                  /\ events'[e].soc_start = events[e].soc_start
                  /\ events'[e].soc_end = events[e].soc_end
      ]_vars

\* departure and arrival times never decrease along rotation r of st
TimesOrdered(st, r) ==
    LET tr == st.rotations[r].trips IN
    /\ \A i \in 1..Len(tr) :
           st.trips[tr[i]].departure_time <= st.trips[tr[i]].arrival_time
    /\ \A i \in 1..(Len(tr) - 1) :
           st.trips[tr[i]].arrival_time <= st.trips[tr[i + 1]].departure_time

\* the rotation invariant: adjacent stations match and times are ordered
RotationInvariant(st, r) == ~Broken(st, r) /\ TimesOrdered(st, r)

(***************************************************************************)
(* C13: a completed call of add_empty_trips keeps the rotation invariant   *)
(* of every rotation that had it: the inserted first trip arrives at the   *)
(* departure station of the former first trip, BREAK before its departure, *)
(* and starts DURATION earlier; the inserted last trip departs from the    *)
(* arrival station of the former last trip, BREAK after its arrival, and   *)
(* ends DURATION later; stations match and times are ordered along the     *)
(* whole new sequence.                                                     *)
(***************************************************************************)
C13_DeadheadKeepsInvariant ==
    [][(Step("add") /\ err' = "none") =>
           \A r \in DOMAIN rotations :
               RotationInvariant(State, r) =>
                   LET old == rotations[r].trips
                       new == rotations'[r].trips
                       first == old[1]
                       last == old[Len(old)]
                       inb == new[1]
                       outb == new[Len(new)]
                   IN  /\ new = <<inb>> \o old \o <<outb>>
                       /\ ArrivalStation(State', inb) = DepartureStation(State, first)
                       /\ trips'[inb].arrival_time =
                              trips[first].departure_time - BREAK_DURATION
                       /\ trips'[inb].departure_time =
                              trips'[inb].arrival_time - DEPOT_TRIP_DURATION
                       /\ DepartureStation(State', outb) = ArrivalStation(State, last)
                       /\ trips'[outb].departure_time =
                              trips[last].arrival_time + BREAK_DURATION
                       /\ trips'[outb].arrival_time =
                              trips'[outb].departure_time + DEPOT_TRIP_DURATION
                       /\ RotationInvariant(State', r)
      ]_vars

(***************************************************************************)
(* C14: a completed call of fix_driving_events leaves every trip of every  *)
(* rotation with one driving event; the first trip's event starts at SOC   *)
(* 1, every later one at the soc_end of the trip before; an interior       *)
(* trip's event keeps the difference soc_start - soc_end it had, and a     *)
(* first or last trip's event has the difference (route distance / 1000)   *)
(* x average / battery capacity of the rotation's vehicle type, the        *)
(* average being the one of the scenario before the call.                  *)
(***************************************************************************)
C14_LeftFold ==
    [][(Step("fix") /\ err' = "none") =>
           \A r \in DOMAIN rotations :
               LET tr == rotations[r].trips
                   n == Len(tr)
                   avg == average_energy_consumption(State)
               IN  \A i \in 1..n :
                       /\ rotations'[r].trips = tr
                       /\ Cardinality(TripEvents(State', tr[i])) = 1
                       /\ \A e \in TripEvents(State', tr[i]) :
                              LET delta == RSub(events'[e].soc_start, events'[e].soc_end)
                              IN  /\ i = 1 => events'[e].soc_start = ROne
                                  /\ i > 1 =>
                                         \A p \in TripEvents(State', tr[i - 1]) :
                                             events'[e].soc_start = events'[p].soc_end
                                  /\ (1 < i /\ i < n) =>
                                         /\ e \in DOMAIN events
                                         /\ delta = RSub(events[e].soc_start,
                                                         events[e].soc_end)
                                  /\ (i = 1 \/ i = n) =>
                                         /\ e \notin DOMAIN events
                                         /\ delta =
                                              RDiv(RMul(Rat(routes[trips[tr[i]].route].distance,
                                                            1000), avg),
                                                   RInt(battery_capacity(
                                                            rotations[r].vehicle_type)))
      ]_vars

\* a completed propagation along a rotation with an interior trip, whose
\* event starts below 1 and ends lower, and whose last event starts lower still
C14_Witness ==
    /\ Completed("fix")
    /\ \E r \in DOMAIN rotations :
           LET tr == rotations[r].trips IN
           /\ Len(tr) >= 3
           /\ \E e \in TripEvents(State, tr[2]) :
                  /\ RLt(events[e].soc_start, ROne)
                  /\ RLt(events[e].soc_end, events[e].soc_start)
                  /\ \E f \in TripEvents(State, tr[Len(tr)]) :
                         /\ RLe(events[f].soc_start, events[e].soc_end)
                         /\ RLt(events[f].soc_end, events[f].soc_start)

\* the energy in kWh and the distance in km of the events es of st
RECURSIVE TotalEnergy(_, _)
TotalEnergy(st, es) ==
    IF es = {} THEN RZero
    ELSE LET e == CHOOSE x \in es : TRUE IN
         RAdd(RMul(RSub(st.events[e].soc_start, st.events[e].soc_end),
                   RInt(battery_capacity(st.events[e].vehicle_type))),
              TotalEnergy(st, es \ {e}))

RECURSIVE TotalKm(_, _)
TotalKm(st, es) ==
    IF es = {} THEN RZero
    ELSE LET e == CHOOSE x \in es : TRUE IN
         RAdd(Rat(st.routes[st.trips[st.events[e].trip].route].distance, 1000),
              TotalKm(st, es \ {e}))

\* the events of st are (1.0 -> 0.8, 300 kWh, 10 km) and (0.8 -> 0.6, 300 kWh, 15 km)
TwoEventsExample(st) ==
    \E a, b \in DOMAIN st.events :
        /\ DOMAIN st.events = {a, b} /\ a # b
        /\ st.events[a].soc_start = Rat(1, 1) /\ st.events[a].soc_end = Rat(4, 5)
        /\ st.events[b].soc_start = Rat(4, 5) /\ st.events[b].soc_end = Rat(3, 5)
        /\ battery_capacity(st.events[a].vehicle_type) = 300
        /\ battery_capacity(st.events[b].vehicle_type) = 300
        /\ st.routes[st.trips[st.events[a].trip].route].distance = 10000
        /\ st.routes[st.trips[st.events[b].trip].route].distance = 15000

(***************************************************************************)
(* C15: in a call of fix_driving_events on a scenario with at least one    *)
(* driving event the average is defined and is the total energy of all     *)
(* events, (soc_start - soc_end) x battery capacity of the event's vehicle *)
(* type, over their total route distance in km, one value for all vehicle  *)
(* types: every event the call creates has the SOC difference              *)
(* km x that value / capacity.  For the events (1.0 -> 0.8, 300 kWh,       *)
(* 10 km) and (0.8 -> 0.6, 300 kWh, 15 km) the value is 4.8.               *)
(***************************************************************************)
C15_FleetAverage ==
    [][(Step("fix") /\ DOMAIN events # {}) =>
           LET value == RDiv(TotalEnergy(State, DOMAIN events),
                             TotalKm(State, DOMAIN events))
           IN  /\ err' # "ZeroDivisionError"
               /\ TwoEventsExample(State) => value = Rat(24, 5)
               /\ \A e \in DOMAIN events' \ DOMAIN events :
                      LET t == events'[e].trip
                          km == Rat(routes[trips[t].route].distance, 1000)
                          capacity == RInt(battery_capacity(
                                         rotations[trips[t].rotation].vehicle_type))
                      IN  RSub(events'[e].soc_start, events'[e].soc_end) =
                              RDiv(RMul(km, value), capacity)
      ]_vars

\* the two events of the example, then deadhead trips of 3.1 km whose new
\* events have the SOC difference 3.1 x 4.8 / 300
C15_Witness ==
    /\ log = <<"add", "fix">> /\ err = "none"
    /\ \E e \in DOMAIN events :
           /\ trips[events[e].trip].trip_type = "EMPTY"
           /\ events[e].soc_start = ROne
           /\ events[e].soc_end = RSub(ROne, Rat(31 * 24, 10 * 5 * 300))
    /\ \E a, b \in DOMAIN events :
           /\ events[a].soc_end = RSub(events[a].soc_start, Rat(1, 5))
           /\ events[b].soc_end = RSub(events[b].soc_start, Rat(1, 5))
           /\ routes[trips[events[a].trip].route].distance = 10000
           /\ routes[trips[events[b].trip].route].distance = 15000
           /\ Cardinality(DOMAIN events) = 4

====
